---- MODULE Spec2Model ----
(***************************************************************************)
(* State-machine model of onemap/main.py (class OneMapAPI): the token      *)
(* properties `headers` and `access_token`, the retrying `_send_request`,  *)
(* `search`, and the thread-pool fan-out `searches`.                       *)
(*                                                                         *)
(* Thread 0 is the caller of the public API; threads 1..MaxQueries are the *)
(* pool threads that run the search calls of one `searches` batch, thread  *)
(* i running the call submitted for queries[i].                            *)
(*                                                                         *)
(* Time is an integer clock (`now`, the value of time.time()).  Attribute  *)
(* reads and writes take no time: the clock advances only while no thread  *)
(* is between two statements, i.e. every thread is idle, finished, waiting *)
(* for an HTTP response or sleeping.  Threads interleave at statement      *)
(* granularity.  A time.sleep(d) call records its duration d in the        *)
(* thread's retry chain and ends after an unspecified number of seconds;   *)
(* an HTTP response likewise arrives after an unspecified delay.           *)
(*                                                                         *)
(* The module also models class BaseClient of onemap/base_api_model.py, a  *)
(* separate object with its own state (client, token, base_url).           *)
(***************************************************************************)
EXTENDS Integers, Sequences, FiniteSets, TLC

\* ------------------------------------------------------------------ bounds
MaxTime == 2        \* the clock runs over 0..MaxTime
MaxTTL == 1         \* the service grants tokens living 1..MaxTTL seconds
MaxTokens == 2      \* the service grants at most this many tokens
MaxThrottle == 2    \* the service answers at most this many requests with 429
MaxQueries == 2     \* longest query list handed to searches()
MaxOps == 2         \* public calls made one after the other by the caller
MaxCalls == 2       \* HTTP calls issued through a BaseClient

\* CPython's default bound on the depth of the call stack
\* (sys.getrecursionlimit()); here it bounds the number of nested
\* _send_request frames that the recursive retry of line 44 may stack up.
RecursionLimit == 1000

\* --------------------------------------------------------------- constants
Main == 0
Workers == 1..MaxQueries
Threads == {Main} \cup Workers

NoToken == 0                       \* attribute _access_token/_headers not set
NoExpiry == -1                     \* attribute _access_token_expiry not set

QueryStrings == {"q1", "q2"}
Statuses == {200, 404, 429}
Bodies == {"not found", "denied"}

\* JSON result records the search endpoint may return; the last one carries a
\* field named "query" of its own.
ServiceRecords ==
    { [ADDRESS |-> "1 RD"],
      [ADDRESS |-> "2 RD", query |-> "svc"] }

\* JSON bodies of a 200 answer of the search endpoint.
SearchPayloads ==
    { [results |-> <<>>],
      [found |-> 0] }
    \cup { [results |-> <<r>>] : r \in ServiceRecords }

\* Values of the dataclass field backoff_multiplier, as fractions <<n, d>>:
\* the default 1.5, and 1.0 (a constant backoff).
DefaultMultiplier == << 3, 2 >>
ConstantBackoff == << 1, 1 >>

VARIABLES
    now,                  \* time.time()
    credentials,          \* TRUE iff self.email and self.password are non-empty
    backoff_multiplier,   \* self.backoff_multiplier, a fraction <<n, d>>
    access_token,         \* self._access_token, NoToken while unset
    access_token_expiry,  \* self._access_token_expiry, NoExpiry while unset
    headers,              \* self._headers["Authorization"], NoToken while unset
    granted,              \* sequence: granted[k] = expiry_timestamp the service gave token k
    throttle,             \* number of 429 answers the service still gives
    pc,                   \* pc[t]: where thread t stands
    fr,                   \* fr[t]: locals of thread t's call
    ops,                  \* number of public calls started by the caller
    queries,              \* argument `queries` of the running searches()
    max_workers,          \* argument `max_workers` of the running searches()
    results,              \* local `results` of searches(): query string -> list
    collected,            \* futures yielded by as_completed so far, in order
    client,               \* BaseClient._client
    token,                \* BaseClient._token
    base_url,             \* BaseClient._base_url
    http,                 \* HTTP calls issued through BaseClient._client
    outcome               \* how the last call of a BaseClient method ended

vars == << now, credentials, backoff_multiplier, access_token,
           access_token_expiry, headers, granted, throttle, pc, fr, ops,
           queries, max_workers, results, collected,
           client, token, base_url, http, outcome >>

baseClientVars == << client, token, base_url, http, outcome >>

tokenVars == << access_token, access_token_expiry, headers >>
batchVars == << queries, max_workers, results, collected >>
\* what no method of OneMapAPI changes: its configuration, and the BaseClient
configVars == << credentials, backoff_multiplier, baseClientVars >>
apiVars == << now, credentials, backoff_multiplier, tokenVars, granted,
              throttle, pc, fr, ops, batchVars >>

\* ----------------------------------------------------------------- helpers
\* dict.get(key, default)
Get(d, key, default) == IF key \in DOMAIN d THEN d[key] ELSE default

\* {**a, **b}: the keys of b win
DictMerge(a, b) == b @@ a

EmptyDict == [k \in {} |-> 0]

\* a * b on fractions <<n, d>>
FracMul(a, b) == << a[1] * b[1], a[2] * b[2] >>

\* a ** k on fractions
RECURSIVE Pow(_, _)
Pow(a, k) == IF k = 0 THEN << 1, 1 >> ELSE FracMul(Pow(a, k - 1), a)

\* int(x) of a non-negative fraction: truncation
IntOf(x) == x[1] \div x[2]

\* the last two elements of s followed by x, at most two kept
LastTwo(s, x) == IF Len(s) = 2 THEN << s[2], x >> ELSE Append(s, x)

\* One chain of _send_request calls for one logical request: the argument
\* `backoff` of the innermost call (default 1), the number of HTTP requests
\* issued, the number of time.sleep calls made, the durations of the last two
\* of them, and the status and body of the last response (status 0: none yet).
NewChain ==
    [ backoff |-> << 1, 1 >>, attempts |-> 0, nsleeps |-> 0,
      sleeps |-> <<>>, status |-> 0, text |-> "" ]

\* the response r is the last one received on chain c
Got(c, r) == [ c EXCEPT !.status = r.status, !.text = r.text ]

NoResponse == [access_token |-> NoToken, expiry_timestamp |-> NoExpiry]
NoOutcome == [kind |-> "none"]

\* The locals of one public call running in a thread.
\*   op        "search" (search -> _send_request), "reverse" (_reverse_search
\*             -> _send_request), "convert" (_convert -> _send_request),
\*             "token" (a read of the property access_token by the caller)
\*             or "searches"
\*   arg       the argument: the query of search, the list of searches, the
\*             keyword arguments of _reverse_search and of _convert
\*   url       the query string _reverse_search or _convert appended to the
\*             url, as the sequence of its key=value items
\*   depth     number of _send_request frames on the thread's stack
\*   req       the chain of the request to the search endpoint
\*   auth      the chain of the request to the auth endpoint
\*   sent      the Authorization value returned by self.headers for the
\*             request last issued, sentAt the time it was returned
\*   value     the value returned by self.access_token inside headers
\*   response  the JSON body of the auth endpoint's 200 answer
\*   out       how the call ended
NewFrame(op, arg) ==
    [ op |-> op, arg |-> arg, url |-> <<>>, depth |-> 0,
      req |-> NewChain, auth |-> NewChain,
      sent |-> NoToken, sentAt |-> 0, value |-> NoToken,
      response |-> NoResponse, out |-> NoOutcome ]

\* raise ValueError(f"Request failed with status code {status} and response {text}")
RequestFailed(status, text) ==
    [ kind |-> "raised", exc |-> "ValueError",
      msg |-> [status |-> status, text |-> text] ]

\* raise ValueError("Either access_token or email and password must be provided.")
CredentialsMissing ==
    [ kind |-> "raised", exc |-> "ValueError",
      msg |-> [status |-> 0, text |-> "credentials"] ]

\* the interpreter refuses one more nested call
RecursionError ==
    [ kind |-> "raised", exc |-> "RecursionError",
      msg |-> [status |-> 0, text |-> "maximum recursion depth exceeded"] ]

\* self._access_token_expiry is read while the attribute does not exist
AttributeError ==
    [ kind |-> "raised", exc |-> "AttributeError",
      msg |-> [status |-> 0, text |-> "_access_token_expiry"] ]

Returned(v) == [kind |-> "returned", value |-> v]

\* search, lines 128-132: the records of the response, each with the query
\* stitched in.
Tag(query, result) == DictMerge([query |-> query], result)

search_results(query, response) ==
    LET found == Get(response, "results", <<>>)
    IN  [ i \in 1..Len(found) |-> Tag(query, found[i]) ]

\* "&".join(f"{k}={v}" for k, v in d.items()), lines 93 and 118: one item
\* <<k, v>> per key of d, in the order of the keys (a dict keeps the order in
\* which its keys were first inserted, given here by the sequence order).
RECURSIVE Items(_, _)
Items(d, order) ==
    IF order = <<>> THEN <<>>
    ELSE LET k == Head(order)
         IN  (IF k \in DOMAIN d THEN << << k, d[k] >> >> ELSE <<>>)
                 \o Items(d, Tail(order))

\* _reverse_search, line 92: the defaults, overridden by the keyword arguments
ReverseDefaults == [buffer |-> 40, addressType |-> "All", otherFeatures |-> "N"]

reverse_kwargs_DefaultsWin(kwargs) == DictMerge(kwargs, ReverseDefaults)

reverse_kwargs(kwargs) == DictMerge(ReverseDefaults, kwargs)

\* the keys of the merged dict in insertion order: the defaults first, then
\* the keyword `location` that search_xy and search_latlon pass
ReverseOrder == << "buffer", "addressType", "otherFeatures", "location" >>

\* what the public call running in a frame returns for the JSON body of the
\* 200 answer: search line 132, _reverse_search line 95, _convert line 120
Result(f, json) ==
    IF f.op = "search" THEN search_results(f.arg, json)
    ELSE IF f.op = "reverse" THEN Get(json, "results", <<>>)
    ELSE json

\* _send_request, line 38 and line 51: the branch taken on a status code
Retried_AnyError(status) == status >= 300

Retried(status) == status = 429
Failed(status) == status >= 300

\* headers, line 59, and access_token, lines 71-74
HeadersFresh == headers # NoToken /\ access_token_expiry > now

TokenStale_Always == TRUE

TokenStale == access_token = NoToken \/ now > access_token_expiry

\* ------------------------------------------------------------- the service
Endpoints == {"auth", "search"}

\* the endpoint thread t is waiting on: the auth endpoint, or the endpoint of
\* the public call ("search" stands for it, whichever call it is)
Endpoint(t) == IF pc[t] = "auth_request" THEN "auth" ELSE "search"
Chain(t) == IF pc[t] \in {"auth_request", "auth_sleep"} THEN "auth" ELSE "req"

\* What the service may answer to the request thread t has in flight: a 429
\* while it still throttles that endpoint, an error with some body, or a 200
\* whose JSON is a fresh token living at least one more second (auth
\* endpoint) or a result page (search endpoint).
Answers(t) ==
    { [status |-> 429, text |-> "too many", json |-> EmptyDict] :
        x \in { e \in {Endpoint(t)} : throttle[e] > 0 } }
    \cup { [status |-> s, text |-> b, json |-> EmptyDict] :
              s \in Statuses \ {200, 429}, b \in Bodies }
    \cup IF Endpoint(t) = "auth"
         THEN { [ status |-> 200, text |-> "json",
                  json |-> [ access_token |-> Len(granted) + 1,
                             expiry_timestamp |-> now + ttl ] ] :
                  ttl \in { d \in 1..MaxTTL : Len(granted) < MaxTokens } }
         ELSE { [status |-> 200, text |-> "json", json |-> j] :
                  j \in SearchPayloads }

\* ------------------------------------------------------------ _send_request
\* line 43: time.sleep(int(backoff)) after a 429
Sleep(c) ==
    [ c EXCEPT !.nsleeps = @ + 1, !.sleeps = LastTwo(@, IntOf(c.backoff)) ]

\* line 48: the recursive call's backoff
Backoff_Shared(c) ==
    [ c EXCEPT !.backoff =
        Pow(backoff_multiplier,
            MaxThrottle - throttle["auth"] - throttle["search"]) ]

Backoff(c) == [ c EXCEPT !.backoff = FracMul(@, backoff_multiplier) ]

\* line 35: requests.request(...)
Issue(c) == [ c EXCEPT !.attempts = @ + 1 ]

\* The exception e leaves the thread's call.
Raise(t, e) ==
    /\ pc' = [pc EXCEPT ![t] = "raised"]
    /\ fr' = [fr EXCEPT ![t].out = e, ![t].depth = 0,
                        ![t].value = NoToken, ![t].response = NoResponse]

\* lines 35-55: the response to the request in flight arrives.
\*   429: sleep, then (Wake) call _send_request again;
\*   other status >= 300: raise ValueError;
\*   else: json.loads(response.text) is returned, to access_token (line 75)
\*   or to search (line 127).
Receive(t, r) ==
    /\ pc[t] \in {"request", "auth_request"}
    /\ r \in Answers(t)
    /\ throttle' = IF r.status = 429
                   THEN [throttle EXCEPT ![Endpoint(t)] = @ - 1]
                   ELSE throttle
    /\ granted' = IF r.status = 200 /\ Endpoint(t) = "auth"
                  THEN Append(granted, r.json.expiry_timestamp)
                  ELSE granted
    /\ IF Retried(r.status)
       THEN /\ pc' = [pc EXCEPT ![t] = IF pc[t] = "request"
                                       THEN "sleep" ELSE "auth_sleep"]
            /\ fr' = [fr EXCEPT ![t][Chain(t)] =
                                    Sleep(Got(@, r)),
                                ![t].sent = NoToken, ![t].sentAt = 0]
       ELSE IF Failed(r.status)
       THEN /\ pc' = [pc EXCEPT ![t] = "raised"]
            /\ fr' = [fr EXCEPT ![t][Chain(t)] = Got(@, r),
                                ![t].sent = NoToken, ![t].sentAt = 0,
                                ![t].depth = 0,
                                ![t].out = RequestFailed(r.status, r.text)]
       ELSE IF pc[t] = "auth_request"
       THEN /\ pc' = [pc EXCEPT ![t] = "store_token"]
            /\ fr' = [fr EXCEPT ![t].auth = Got(@, r),
                                ![t].response = r.json,
                                ![t].depth = @ - 1]
       ELSE /\ pc' = [pc EXCEPT ![t] = "done"]
            /\ fr' = [fr EXCEPT ![t].req = Got(@, r),
                                ![t].sent = NoToken, ![t].sentAt = 0,
                                ![t].depth = 0,
                                ![t].out = Returned(Result(fr[t], r.json))]
    /\ UNCHANGED << now, configVars, tokenVars, ops, batchVars >>

\* lines 43-50: the sleep is over and _send_request calls itself with
\* backoff * backoff_multiplier.  The nested call re-evaluates self.headers
\* when with_headers, and issues the request at once otherwise.
Wake(t) ==
    /\ pc[t] \in {"sleep", "auth_sleep"}
    /\ IF fr[t].depth >= RecursionLimit
       THEN Raise(t, RecursionError)
       ELSE /\ pc' = [pc EXCEPT ![t] = IF pc[t] = "sleep"
                                       THEN "headers" ELSE "auth_request"]
            /\ fr' = [fr EXCEPT ![t].depth = @ + 1,
                                ![t][Chain(t)] =
                                    IF pc[t] = "sleep"
                                    THEN Backoff(@) ELSE Issue(Backoff(@))]
    /\ UNCHANGED << now, configVars, tokenVars, granted, throttle, ops,
                    batchVars >>

\* ------------------------------------------------------------------ headers
\* lines 57-67, reached from line 36.  A cached header is returned while the
\* stored expiry lies in the future (line 60) and the request is issued with
\* it; otherwise self.access_token is evaluated (line 62), or ValueError is
\* raised when email or password is empty (line 64).
Headers_NoCredentialCheck(t) ==
    /\ pc[t] = "headers"
    /\ IF HeadersFresh
       THEN /\ pc' = [pc EXCEPT ![t] = "request"]
            /\ fr' = [fr EXCEPT ![t].sent = headers, ![t].sentAt = now,
                                ![t].req = Issue(@)]
       ELSE /\ pc' = [pc EXCEPT ![t] = "access_token"]
            /\ fr' = fr
    /\ UNCHANGED << now, configVars, tokenVars, granted, throttle, ops,
                    batchVars >>

Headers(t) ==
    /\ pc[t] = "headers"
    /\ IF HeadersFresh
       THEN /\ pc' = [pc EXCEPT ![t] = "request"]
            /\ fr' = [fr EXCEPT ![t].sent = headers, ![t].sentAt = now,
                                ![t].req = Issue(@)]
       ELSE IF credentials
       THEN /\ pc' = [pc EXCEPT ![t] = "access_token"]
            /\ fr' = fr
       ELSE Raise(t, CredentialsMissing)
    /\ UNCHANGED << now, configVars, tokenVars, granted, throttle, ops,
                    batchVars >>

\* line 62 (assignment) and line 67: the value self.access_token returned is
\* stored as the Authorization header, which is returned to line 36, and the
\* request is issued with it.
SetHeaders(t) ==
    /\ pc[t] = "set_headers"
    /\ headers' = fr[t].value
    /\ pc' = [pc EXCEPT ![t] = "request"]
    /\ fr' = [fr EXCEPT ![t].sent = fr[t].value, ![t].sentAt = now,
                        ![t].value = NoToken, ![t].req = Issue(@)]
    /\ UNCHANGED << now, configVars, access_token, access_token_expiry,
                    granted, throttle, ops, batchVars >>

\* ------------------------------------------------------------- access_token
\* lines 71-80: when no token is stored or the stored one is past its expiry,
\* POST to the auth endpoint through _send_request(with_headers=False).
\* Reading the expiry while only the token is stored raises AttributeError.
AccessToken(t) ==
    /\ pc[t] = "access_token"
    /\ IF access_token # NoToken /\ access_token_expiry = NoExpiry
       THEN Raise(t, AttributeError)
       ELSE IF TokenStale
       THEN IF fr[t].depth >= RecursionLimit
            THEN Raise(t, RecursionError)
            ELSE /\ pc' = [pc EXCEPT ![t] = "auth_request"]
                 /\ fr' = [fr EXCEPT ![t].depth = @ + 1,
                                     ![t].auth = Issue(NewChain)]
       ELSE /\ pc' = [pc EXCEPT ![t] = "return_token"]
            /\ fr' = fr
    /\ UNCHANGED << now, configVars, tokenVars, granted, throttle, ops,
                    batchVars >>

\* line 81: self._access_token = response["access_token"]
StoreToken(t) ==
    /\ pc[t] = "store_token"
    /\ access_token' = fr[t].response.access_token
    /\ pc' = [pc EXCEPT ![t] = "store_expiry"]
    /\ UNCHANGED << now, configVars, access_token_expiry, headers, granted,
                    throttle, fr, ops, batchVars >>

\* line 82: self._access_token_expiry = int(response["expiry_timestamp"])
StoreExpiry(t) ==
    /\ pc[t] = "store_expiry"
    /\ access_token_expiry' = fr[t].response.expiry_timestamp
    /\ pc' = [pc EXCEPT ![t] = "return_token"]
    /\ UNCHANGED << now, configVars, access_token, headers, granted,
                    throttle, fr, ops, batchVars >>

\* line 89: return self._access_token, to headers (line 62) or to the caller
\* that read the property.
ReturnToken(t) ==
    /\ pc[t] = "return_token"
    /\ IF fr[t].op = "token"
       THEN /\ pc' = [pc EXCEPT ![t] = "done"]
            /\ fr' = [fr EXCEPT ![t].out = Returned(access_token),
                                ![t].response = NoResponse]
       ELSE /\ pc' = [pc EXCEPT ![t] = "set_headers"]
            /\ fr' = [fr EXCEPT ![t].value = access_token,
                                ![t].response = NoResponse]
    /\ UNCHANGED << now, configVars, tokenVars, granted, throttle, ops,
                    batchVars >>

\* ----------------------------------------------------------- public calls
Finished(t) == pc[t] \in {"done", "raised"}
CallerFree == pc[Main] \in {"idle", "done", "raised"} /\ ops < MaxOps

\* search(query), lines 122-127, called by the caller: _send_request(url, "GET")
\* is entered and evaluates self.headers.
CallSearch(q) ==
    /\ CallerFree
    /\ pc' = [pc EXCEPT ![Main] = "headers"]
    /\ fr' = [fr EXCEPT ![Main] = [NewFrame("search", q) EXCEPT !.depth = 1]]
    /\ ops' = ops + 1
    /\ UNCHANGED << now, configVars, tokenVars, granted, throttle, batchVars >>

\* the caller reads the public property access_token
CallAccessToken ==
    /\ CallerFree
    /\ pc' = [pc EXCEPT ![Main] = "access_token"]
    /\ fr' = [fr EXCEPT ![Main] = NewFrame("token", "")]
    /\ ops' = ops + 1
    /\ UNCHANGED << now, configVars, tokenVars, granted, throttle, batchVars >>

\* Keyword arguments handed to _reverse_search: `location` as search_xy and
\* search_latlon pass it, and overrides of the defaults.
ReverseKeys == { "location", "buffer", "addressType", "otherFeatures" }

ReverseKwargs ==
    { [k \in S |-> r[k]] :
        r \in [ location : {"1,2"}, buffer : {10, 40}, addressType : {"HDB"},
                otherFeatures : {"Y", "N"} ],
        S \in SUBSET ReverseKeys }

\* _reverse_search(url, **kwargs), lines 91-94: the defaults are merged with
\* kwargs, the items are appended to the url and _send_request(url, "GET") is
\* entered.
CallReverseSearch(kwargs) ==
    /\ CallerFree
    /\ pc' = [pc EXCEPT ![Main] = "headers"]
    /\ fr' = [fr EXCEPT ![Main] =
                 [ NewFrame("reverse", kwargs) EXCEPT
                     !.depth = 1,
                     !.url = Items(reverse_kwargs(kwargs), ReverseOrder) ]]
    /\ ops' = ops + 1
    /\ UNCHANGED << now, configVars, tokenVars, granted, throttle, batchVars >>

\* xy_to_latlon(x, y), lines 107-119: _convert("3414", "4326", X=x, Y=y)
\* appends the items of its keyword arguments and enters _send_request.
ConvertKwargs == { [X |-> 1, Y |-> 2] }
ConvertOrder == << "X", "Y" >>

CallConvert(kwargs) ==
    /\ CallerFree
    /\ pc' = [pc EXCEPT ![Main] = "headers"]
    /\ fr' = [fr EXCEPT ![Main] =
                 [ NewFrame("convert", kwargs) EXCEPT
                     !.depth = 1,
                     !.url = Items(kwargs, ConvertOrder) ]]
    /\ ops' = ops + 1
    /\ UNCHANGED << now, configVars, tokenVars, granted, throttle, batchVars >>

\* ----------------------------------------------------------------- searches
DefaultMaxWorkers == 5

\* The query lists handed to searches(): every list of at most MaxQueries
\* strings, up to a renaming of the strings (the client never looks into a
\* query string): the first string is "q1".
QueryLists ==
    { qs \in UNION { [1..n -> QueryStrings] : n \in 0..MaxQueries } :
        Len(qs) > 0 => qs[1] = "q1" }

\* the search calls of the batch that occupy a pool thread
Running == { t \in Workers : pc[t] \notin {"idle", "pending", "done", "raised"} }

\* lines 140-144: the pool is created, one search call is submitted per
\* element of `queries`, and the caller starts iterating as_completed.
CallSearches(qs, mw) ==
    /\ CallerFree
    /\ qs \in QueryLists
    /\ queries' = qs
    /\ max_workers' = mw
    /\ results' = EmptyDict
    /\ collected' = <<>>
    /\ pc' = [ t \in Threads |->
                 IF t = Main THEN "as_completed"
                 ELSE IF t <= Len(qs) THEN "pending" ELSE "idle" ]
    /\ fr' = [ t \in Threads |->
                 IF t = Main THEN NewFrame("searches", qs)
                 ELSE IF t <= Len(qs) THEN NewFrame("search", qs[t])
                 ELSE NewFrame("none", "") ]
    /\ ops' = ops + 1
    /\ UNCHANGED << now, configVars, tokenVars, granted, throttle >>

\* ThreadPoolExecutor(max_workers=max_workers), line 140: a pool thread is
\* free, so the oldest submitted call that has not started yet starts:
\* self.search(q) enters _send_request.
PoolHasRoom_Unbounded == TRUE

PoolHasRoom == Cardinality(Running) < max_workers

Start_Redispatch(i) ==
    /\ pc[Main] = "as_completed"
    /\ pc[i] \in {"pending", "raised"}
    /\ i <= Len(queries)
    /\ PoolHasRoom
    /\ pc' = [pc EXCEPT ![i] = "headers"]
    /\ fr' = [fr EXCEPT ![i] = [NewFrame("search", queries[i]) EXCEPT !.depth = 1]]
    /\ UNCHANGED << now, configVars, tokenVars, granted, throttle, ops,
                    batchVars >>

Start(i) ==
    /\ pc[Main] = "as_completed"
    /\ pc[i] = "pending"
    /\ \A j \in 1..(i - 1) : pc[j] # "pending"
    /\ PoolHasRoom
    /\ pc' = [pc EXCEPT ![i] = "headers"]
    /\ fr' = [fr EXCEPT ![i].depth = 1]
    /\ UNCHANGED << now, configVars, tokenVars, granted, throttle, ops,
                    batchVars >>

\* lines 152-155: results[q] = fut.result(), or [{"error": str(e)}] when the
\* call raised.
Entry_NoMessage(i) ==
    IF fr[i].out.kind = "returned"
    THEN fr[i].out.value
    ELSE << [error |-> [status |-> 0, text |-> fr[i].out.exc]] >>

Entry(i) ==
    IF fr[i].out.kind = "returned"
    THEN fr[i].out.value
    ELSE << [error |-> fr[i].out.msg] >>

\* lines 151-155: the entry is written under the future's query.
Store_DropFailed(i) ==
    IF fr[i].out.kind = "returned"
    THEN DictMerge(results, (queries[i] :> fr[i].out.value))
    ELSE results

Store_FirstWins(i) == DictMerge((queries[i] :> Entry(i)), results)

Store(i) == DictMerge(results, (queries[i] :> Entry(i)))

\* as_completed(future_to_query), line 146: the futures that may be yielded
\* next are the finished ones not yielded yet.
Yieldable ==
    { i \in 1..Len(queries) :
        Finished(i) /\ \A k \in 1..Len(collected) : collected[k] # i }

\* lines 145-155: one iteration of the loop over as_completed.
Collect(i) ==
    /\ pc[Main] = "as_completed"
    /\ i \in Yieldable
    /\ results' = Store(i)
    /\ collected' = Append(collected, i)
    /\ UNCHANGED << now, configVars, tokenVars, granted, throttle, pc, fr,
                    ops, queries, max_workers >>

\* as_completed is exhausted once it has yielded every future.
Exhausted_FirstCompleted == collected # <<>> \/ queries = <<>>

Exhausted == Len(collected) = Len(queries)

\* line 156: the loop is over, the pool is shut down, results is returned.
\* The pool threads and the locals of searches() are gone after the return.
Return ==
    /\ pc[Main] = "as_completed"
    /\ Exhausted
    /\ pc' = [t \in Threads |-> IF t = Main THEN "done" ELSE "idle"]
    /\ fr' = [ t \in Threads |->
                 IF t = Main THEN [fr[Main] EXCEPT !.out = Returned(results)]
                 ELSE NewFrame("none", "") ]
    /\ queries' = <<>>
    /\ max_workers' = DefaultMaxWorkers
    /\ results' = EmptyDict
    /\ collected' = <<>>
    /\ UNCHANGED << now, configVars, tokenVars, granted, throttle, ops >>

\* -------------------------------------------------------------------- clock
Blocked(t) ==
    pc[t] \in { "idle", "pending", "as_completed", "request", "auth_request",
                "sleep", "auth_sleep", "done", "raised" }

\* One second passes.
Tick ==
    /\ now < MaxTime
    /\ \A t \in Threads : Blocked(t)
    /\ now' = now + 1
    /\ UNCHANGED << configVars, tokenVars, granted, throttle, pc, fr, ops,
                    batchVars >>

\* --------------------------------------------------------------- BaseClient
\* base_api_model.py, lines 14-16: the dataclass defaults.  None is NoClient
\* for _client, NoToken for _token and NoUrl for _base_url.
NoClient == [kind |-> "None"]
NoUrl == ""
ClientTokens == 1..2
BaseUrls == { "https://www.onemap.gov.sg/api" }
Methods == { "GET", "POST", "PUT", "DELETE" }

\* httpx.Client(base_url=..., headers={"Authorization": ...}), lines 22-24
HttpxClient(url, tok) ==
    [kind |-> "Client", base_url |-> url, Authorization |-> tok]

BaseUrlMissing ==
    [ kind |-> "raised", exc |-> "ValueError",
      msg |-> "Base URL must be set before setting credentials" ]

CredentialsNotSet ==
    [ kind |-> "raised", exc |-> "RuntimeError",
      msg |-> "Credentials not set. Call set_credentials() first." ]

HTTPStatusError(status) ==
    [ kind |-> "raised", exc |-> "HTTPStatusError", msg |-> status ]

\* set_credentials(token), lines 18-24
set_credentials(tok) ==
    /\ token' = tok
    /\ IF base_url = NoUrl
       THEN /\ outcome' = BaseUrlMissing
            /\ client' = client
       ELSE /\ client' = HttpxClient(base_url, tok)
            /\ outcome' = Returned(NoToken)
    /\ UNCHANGED << apiVars, base_url, http >>

\* _request(method, endpoint), lines 26-32, reached from get, post, put and
\* delete (lines 34-44); the service answers with `status`.
\* response.raise_for_status() raises for a 4xx or 5xx status.
request(method, status) ==
    /\ IF client = NoClient
       THEN /\ outcome' = CredentialsNotSet
            /\ http' = http
       ELSE /\ Len(http) < MaxCalls
            /\ http' = Append(http, [ method |-> method,
                                      Authorization |-> client.Authorization ])
            /\ outcome' = IF status >= 400 THEN HTTPStatusError(status)
                          ELSE Returned(status)
    /\ UNCHANGED << apiVars, client, token, base_url >>

\* ------------------------------------------------------------ specification
\* The service throttles one of its endpoints, with up to MaxThrottle 429
\* answers.
Throttlings ==
    { [e \in Endpoints |-> IF e = x THEN MaxThrottle ELSE 0] : x \in Endpoints }

\* OneMapAPI(email, password): no token attribute exists yet.
Init ==
    /\ now = 0
    /\ credentials \in BOOLEAN
    /\ backoff_multiplier = DefaultMultiplier
    /\ access_token = NoToken
    /\ access_token_expiry = NoExpiry
    /\ headers = NoToken
    /\ granted = <<>>
    /\ throttle \in Throttlings
    /\ pc = [t \in Threads |-> "idle"]
    /\ fr = [t \in Threads |-> NewFrame("none", "")]
    /\ ops = 0
    /\ queries = <<>>
    /\ max_workers = DefaultMaxWorkers
    /\ results = EmptyDict
    /\ collected = <<>>
    /\ client = NoClient
    /\ token = NoToken
    /\ base_url = NoUrl
    /\ http = <<>>
    /\ outcome = NoOutcome

Step(t) ==
    \/ \E r \in Answers(t) : Receive(t, r)
    \/ Wake(t)
    \/ Headers(t)
    \/ SetHeaders(t)
    \/ AccessToken(t)
    \/ StoreToken(t)
    \/ StoreExpiry(t)
    \/ ReturnToken(t)

Next ==
    \/ CallSearch("q1")
    \/ CallAccessToken
    \/ \E qs \in QueryLists, mw \in 1..MaxQueries : CallSearches(qs, mw)
    \/ \E i \in Workers : Start(i)
    \/ \E i \in Workers : Collect(i)
    \/ Return
    \/ \E t \in Threads : Step(t)
    \/ Tick

Spec == Init /\ [][Next]_vars

\* The caller alone: public calls made one after the other from one thread,
\* no searches() batch.
NextCaller ==
    \/ CallSearch("q1")
    \/ CallAccessToken
    \/ Step(Main)
    \/ Tick

SpecCaller == Init /\ [][NextCaller]_vars

\* The caller alone, making any of the single-request calls.
NextOperations ==
    \/ CallSearch("q1")
    \/ \E kwargs \in ReverseKwargs : CallReverseSearch(kwargs)
    \/ \E kwargs \in ConvertKwargs : CallConvert(kwargs)
    \/ CallAccessToken
    \/ Step(Main)
    \/ Tick

SpecOperations == Init /\ [][NextOperations]_vars

\* A client built with backoff_multiplier=1.0 makes one call against a service
\* that keeps answering the search endpoint with 429.
InitThrottled ==
    /\ now = 0
    /\ credentials = TRUE
    /\ backoff_multiplier = ConstantBackoff
    /\ access_token = NoToken
    /\ access_token_expiry = NoExpiry
    /\ headers = NoToken
    /\ granted = <<>>
    /\ throttle = [e \in Endpoints |-> IF e = "search" THEN RecursionLimit ELSE 0]
    /\ pc = [t \in Threads |-> "idle"]
    /\ fr = [t \in Threads |-> NewFrame("none", "")]
    /\ ops = MaxOps - 1
    /\ queries = <<>>
    /\ max_workers = DefaultMaxWorkers
    /\ results = EmptyDict
    /\ collected = <<>>
    /\ client = NoClient
    /\ token = NoToken
    /\ base_url = NoUrl
    /\ http = <<>>
    /\ outcome = NoOutcome

SpecThrottled == InitThrottled /\ [][NextCaller]_vars

\* A BaseClient, built with or without a base URL (address.py line 11 passes
\* one), and the calls made on it.  No OneMapAPI call is made.
InitBaseClient ==
    /\ now = 0
    /\ credentials = TRUE
    /\ backoff_multiplier = DefaultMultiplier
    /\ access_token = NoToken
    /\ access_token_expiry = NoExpiry
    /\ headers = NoToken
    /\ granted = <<>>
    /\ throttle = [e \in Endpoints |-> 0]
    /\ pc = [t \in Threads |-> "idle"]
    /\ fr = [t \in Threads |-> NewFrame("none", "")]
    /\ ops = 0
    /\ queries = <<>>
    /\ max_workers = DefaultMaxWorkers
    /\ results = EmptyDict
    /\ collected = <<>>
    /\ client = NoClient
    /\ token = NoToken
    /\ base_url \in {NoUrl} \cup BaseUrls
    /\ http = <<>>
    /\ outcome = NoOutcome

NextBaseClient ==
    \/ \E tok \in ClientTokens : set_credentials(tok)
    \/ \E method \in Methods, status \in Statuses : request(method, status)

SpecBaseClient == InitBaseClient /\ [][NextBaseClient]_vars

\* ================================================================== claims
ChainNames == {"req", "auth"}

\* C1: the token attached to a request is not expired when self.headers
\* returns it: the expiry the service granted it with lies after the time of
\* the return.
C1_TokenValidWhenAttached ==
    \A t \in Threads :
        pc[t] = "request" => granted[fr[t].sent] > fr[t].sentAt

\* C2: at most one request to the auth endpoint is in flight (sent, or
\* sleeping before its retry) at any time.
C2_SingleInFlightRefresh ==
    Cardinality({ t \in Threads : pc[t] \in {"auth_request", "auth_sleep"} }) <= 1

\* C3: a request answered 429, 429, 200 has returned after exactly two sleeps,
\* and the second sleep lasted the first sleep times backoff_multiplier.
C3_BackoffGrowth ==
    \A t \in Threads : \A c \in ChainNames :
        (fr[t][c].status = 200 /\ fr[t][c].attempts = 3) =>
            /\ fr[t][c].nsleeps = 2
            /\ fr[t][c].sleeps[2] * backoff_multiplier[2]
                  = fr[t][c].sleeps[1] * backoff_multiplier[1]

\* C4: a response with a status >= 300 other than 429 ends the call at once:
\* the call has raised the error carrying that status and body, it slept only
\* before its earlier retries (not at all when this was the first response),
\* and it stays ended.
C4_NoRetryOnError ==
    \A t \in Threads : \A c \in ChainNames :
        (fr[t][c].status >= 300 /\ fr[t][c].status # 429) =>
            /\ pc[t] = "raised"
            /\ fr[t].out = RequestFailed(fr[t][c].status, fr[t][c].text)
            /\ fr[t][c].nsleeps = fr[t][c].attempts - 1

C4_Witness ==
    \E t \in Threads :
        /\ pc[t] = "raised"
        /\ fr[t].req.status = 404
        /\ fr[t].req.attempts = 1
        /\ fr[t].req.nsleeps = 0
        /\ fr[t].out.msg = [status |-> 404, text |-> "denied"]

\* C5: however many 429 answers a call receives in a row, it never raises
\* because of them: a call raises only the error of a response that was not
\* a 429 (or the error of missing credentials).
C5_ThrottlingAbsorbed ==
    \A t \in Threads :
        pc[t] = "raised" =>
            \/ fr[t].out = CredentialsMissing
            \/ \E c \in ChainNames :
                   /\ fr[t][c].status # 429
                   /\ fr[t].out = RequestFailed(fr[t][c].status, fr[t][c].text)

\* what the call submitted for queries[i] ended with, as a results entry
Outcome(i) ==
    IF pc[i] = "raised"
    THEN << [error |-> fr[i].out.msg] >>
    ELSE fr[i].out.value

Elements(seq) == { seq[i] : i \in 1..Len(seq) }
Occurrences(q) == { i \in 1..Len(queries) : queries[i] = q }
SearchesReturned == pc[Main] = "done" /\ fr[Main].op = "searches"

\* C6: the mapping returned by searches(Q) has exactly the distinct strings
\* of Q as its keys.
C6_BatchCompleteness ==
    SearchesReturned =>
        DOMAIN fr[Main].out.value = Elements(fr[Main].arg)

C6_Witness ==
    /\ SearchesReturned
    /\ Len(fr[Main].arg) = 2
    /\ fr[Main].arg[1] = fr[Main].arg[2]
    /\ DOMAIN fr[Main].out.value = {"q1"}

\* the call of query string q whose entry was written last
LastCollected(q) ==
    collected[ CHOOSE k \in 1..Len(collected) :
                 /\ queries[collected[k]] = q
                 /\ \A m \in (k + 1)..Len(collected) : queries[collected[m]] # q ]

\* C7 as stated: when the loop over as_completed is over, no exception has
\* left searches(), every call has ended, the entry of each call that raised
\* is the [{error: message}] of a failed call of its query, and the entry of
\* each other call is the records of a successful call of its query.
C7_EveryCallHasItsEntry ==
    /\ ~ (pc[Main] = "raised" /\ fr[Main].op = "searches")
    /\ (pc[Main] = "as_completed" /\ Exhausted) =>
           \A i \in 1..Len(queries) :
               /\ Finished(i)
               /\ \E j \in Occurrences(queries[i]) :
                      /\ pc[j] = pc[i]
                      /\ results[queries[i]] = Outcome(j)

\* C7 amended: the same for every query string that occurs once in the
\* batch; the entry of a string that occurs several times is the outcome
\* (error record or records) of its call that as_completed yielded last.
C7_BatchFaultIsolation ==
    /\ ~ (pc[Main] = "raised" /\ fr[Main].op = "searches")
    /\ (pc[Main] = "as_completed" /\ Exhausted) =>
           \A i \in 1..Len(queries) :
               /\ Finished(i)
               /\ Occurrences(queries[i]) = {i} =>
                      results[queries[i]] = Outcome(i)
               /\ results[queries[i]] = Outcome(LastCollected(queries[i]))

C7_Witness ==
    /\ pc[Main] = "as_completed"
    /\ Exhausted
    /\ queries = << "q1", "q2" >>
    /\ pc[1] = "raised"
    /\ pc[2] = "done"
    /\ results["q1"] = << [error |-> [status |-> 404, text |-> "not found"]] >>
    /\ Len(results["q2"]) = 1

\* C8: searches() returns only when every submitted call has ended.
C8_NoEarlyReturn ==
    [][ (pc[Main] = "as_completed" /\ pc'[Main] # "as_completed") =>
            \A i \in 1..Len(queries) : Finished(i) ]_vars

C8_Witness ==
    /\ SearchesReturned
    /\ Len(fr[Main].arg) = 2
    /\ \E q \in DOMAIN fr[Main].out.value :
           fr[Main].out.value[q] = << [error |-> [status |-> 404, text |-> "denied"]] >>

\* C9: at most max_workers search calls of a batch run at any time, sleeping
\* ones included.
C9_BoundedConcurrency == Cardinality(Running) <= max_workers

C9_Witness ==
    /\ max_workers = 1
    /\ pc[1] = "sleep"
    /\ pc[2] = "pending"

\* C10: every record returned by search(q) has its field `query` equal to q.
C10_QueryTagging ==
    \A t \in Threads :
        (pc[t] = "done" /\ fr[t].op = "search") =>
            \A k \in 1..Len(fr[t].out.value) :
                fr[t].out.value[k].query = fr[t].arg

\* the parameters a query string carries: key -> value of its items
ParamsOf(url) ==
    [ k \in { url[i][1] : i \in 1..Len(url) } |->
        url[ CHOOSE i \in 1..Len(url) : url[i][1] = k ][2] ]

\* C11: the parameters _reverse_search sends are the three defaults and the
\* caller's keyword arguments, each key once; a keyword argument is sent with
\* the caller's value, and a default the caller did not pass is sent as it is.
C11_ReverseDefaultMerge ==
    \A t \in Threads :
        fr[t].op = "reverse" =>
            LET sent == ParamsOf(fr[t].url)
            IN  /\ Len(fr[t].url) = Cardinality(DOMAIN sent)
                /\ DOMAIN sent = DOMAIN ReverseDefaults \cup DOMAIN fr[t].arg
                /\ \A k \in DOMAIN fr[t].arg : sent[k] = fr[t].arg[k]
                /\ \A k \in DOMAIN ReverseDefaults \ DOMAIN fr[t].arg :
                       sent[k] = ReverseDefaults[k]

C11_Witness ==
    /\ pc[Main] = "done"
    /\ fr[Main].op = "reverse"
    /\ fr[Main].arg = [otherFeatures |-> "Y"]
    /\ fr[Main].url = << << "buffer", 40 >>, << "addressType", "All" >>,
                         << "otherFeatures", "Y" >> >>
    /\ fr[Main].req.attempts = 1

\* C12: one acquisition of a token issues one request to the auth endpoint:
\* once that request was answered with a status that is not a success, the
\* acquisition has failed (the call has raised that error) and no further
\* auth request is made by it.
C12_AuthNeverRetried ==
    \A t \in Threads :
        /\ fr[t].auth.attempts <= 1
        /\ fr[t].auth.status >= 300 =>
               /\ pc[t] = "raised"
               /\ fr[t].out = RequestFailed(fr[t].auth.status, fr[t].auth.text)

\* the calls that send the Authorization header
AuthenticatedOps == { "search", "reverse", "convert" }

\* C13: on a client whose email or password is empty, a search, reverse
\* search or convert call issues no request, neither to the auth endpoint nor
\* to its own endpoint, ends by raising the missing-credentials error, and
\* none of its steps changes the stored token, expiry or header.
C13_MissingCredentials ==
    /\ [] ( ~ credentials =>
              \A t \in Threads :
                  fr[t].op \in AuthenticatedOps =>
                      /\ fr[t].req.attempts = 0
                      /\ fr[t].auth.attempts = 0
                      /\ pc[t] \in { "pending", "headers", "raised" }
                      /\ pc[t] = "raised" => fr[t].out = CredentialsMissing )
    /\ [][ \A t \in Threads :
              ( ~ credentials /\ fr'[t].op \in AuthenticatedOps
                  /\ pc'[t] # pc[t] ) => UNCHANGED tokenVars ]_vars

C13_Witness ==
    /\ ~ credentials
    /\ pc[Main] = "raised"
    /\ fr[Main].op = "reverse"
    /\ fr[Main].out = CredentialsMissing
    /\ fr[Main].req.attempts = 0
    /\ fr[Main].auth.attempts = 0
    /\ access_token = NoToken

\* a token is stored and now < expiry_timestamp
TokenValid == access_token # NoToken /\ now < access_token_expiry

\* thread t takes a step of the evaluation of self.headers for a request of
\* an authenticated call that has issued no auth request
EvaluatesHeaders(t) ==
    /\ fr[t].op \in AuthenticatedOps
    /\ pc[t] \in { "headers", "access_token", "return_token", "set_headers" }
    /\ fr[t].auth.attempts = 0
    /\ pc'[t] # pc[t]

\* C14 as stated: while a token is stored and not expired, a request issues
\* no auth request and changes neither the stored token, nor the expiry, nor
\* the cached Authorization header.
C14_NothingChangesWhileValid ==
    [][ \A t \in Threads :
          (TokenValid /\ EvaluatesHeaders(t)) =>
              /\ pc'[t] # "auth_request"
              /\ UNCHANGED tokenVars ]_vars

\* C14 amended: the request issues no auth request and leaves the stored
\* token and expiry unchanged; a header that is cached when the request reads
\* it is attached and left unchanged, and the header changes only by the
\* request caching the stored token it has read.
C14_NoAuthWhileValid ==
    [][ \A t \in Threads :
          (TokenValid /\ EvaluatesHeaders(t)) =>
              /\ pc'[t] # "auth_request"
              /\ fr'[t].auth.attempts = 0
              /\ UNCHANGED << access_token, access_token_expiry >>
              /\ (pc[t] = "headers" /\ headers # NoToken) =>
                     /\ UNCHANGED headers
                     /\ pc'[t] = "request"
                     /\ fr'[t].sent = headers
              /\ pc[t] = "return_token" => fr'[t].value = access_token
              /\ headers' # headers =>
                     /\ pc[t] = "set_headers"
                     /\ headers' = fr[t].value ]_vars

C14_Witness ==
    /\ pc[Main] = "request"
    /\ fr[Main].op = "search"
    /\ fr[Main].auth.attempts = 0
    /\ TokenValid
    /\ Len(granted) = 1
    /\ fr[Main].sent = access_token
    /\ headers = access_token

\* chain c of thread t is in the sleep of line 43
Sleeping(t, c) ==
    (c = "req" /\ pc[t] = "sleep") \/ (c = "auth" /\ pc[t] = "auth_sleep")

\* the number of retries chain c of thread t has entered
Retries(t, c) == fr[t][c].nsleeps - (IF Sleeping(t, c) THEN 1 ELSE 0)

\* C15: the backoff of a chain depends on that chain's own 429s only: it is
\* 1 times backoff_multiplier for every retry of that chain, and the last
\* sleep was int() of the backoff before that retry; the step in which one
\* thread receives a 429 changes nothing of another thread; and while a pool
\* thread sleeps, every other running call can take its next step and the
\* oldest pending call can start if the pool has a free thread.
C15_BackoffLocal ==
    /\ [] ( \A t \in Threads : \A c \in ChainNames :
              /\ fr[t][c].backoff = Pow(backoff_multiplier, Retries(t, c))
              /\ fr[t][c].nsleeps > 0 =>
                     fr[t][c].sleeps[Len(fr[t][c].sleeps)] =
                         IntOf(Pow(backoff_multiplier, fr[t][c].nsleeps - 1)) )
    /\ [][ \A t \in Threads :
              ( pc[t] \in {"request", "auth_request"}
                  /\ pc'[t] \in {"sleep", "auth_sleep"} ) =>
                  \A u \in Threads \ {t} : fr'[u] = fr[u] /\ pc'[u] = pc[u] ]_vars
    /\ [] ( \A i \in Workers :
              pc[i] \in {"sleep", "auth_sleep"} =>
                  \A j \in Workers \ {i} :
                      /\ j \in Running => ENABLED Step(j)
                      /\ ( pc[j] = "pending" /\ PoolHasRoom
                            /\ \A k \in 1..(j - 1) : pc[k] # "pending" ) =>
                             ENABLED Start(j) )

C15_Witness ==
    /\ pc[1] = "request"
    /\ fr[1].req.backoff = DefaultMultiplier
    /\ fr[1].req.sleeps = << 1 >>
    /\ pc[2] = "sleep"
    /\ fr[2].req.backoff = << 1, 1 >>
    /\ fr[2].req.sleeps = << 1 >>

\* the state of a submitted search call, from where its thread stands
Phase(p) ==
    CASE p = "pending" -> "Pending"
      [] p = "done" -> "Succeeded"
      [] p = "raised" -> "Failed"
      [] OTHER -> "Running"

\* C16: searches() submits one call per element of the list; until it
\* returns, each call only moves Pending -> Running -> Succeeded or Failed,
\* and a call that has succeeded or failed stays so, with the same outcome.
C16_QueryStateMachine ==
    [][ /\ (pc[Main] # "as_completed" /\ pc'[Main] = "as_completed") =>
               \A i \in Workers :
                   IF i <= Len(queries')
                   THEN pc'[i] = "pending" /\ fr'[i].arg = queries'[i]
                   ELSE pc'[i] = "idle"
        /\ (pc[Main] = "as_completed" /\ pc'[Main] = "as_completed") =>
               \A i \in 1..Len(queries) :
                   LET a == Phase(pc[i])
                       b == Phase(pc'[i])
                   IN  /\ a = "Pending" => b \in {"Pending", "Running"}
                       /\ a = "Running" =>
                              b \in {"Running", "Succeeded", "Failed"}
                       /\ a \in {"Succeeded", "Failed"} =>
                              b = a /\ fr'[i].out = fr[i].out ]_vars

C16_Witness ==
    /\ pc[Main] = "as_completed"
    /\ queries = << "q1", "q1" >>
    /\ pc[1] = "raised"
    /\ fr[1].req.attempts = 1
    /\ pc[2] = "done"
    /\ Len(collected) = 2

\* the last position of query string q in the list handed to searches()
LastOccurrence(q) ==
    CHOOSE i \in Occurrences(q) : \A j \in Occurrences(q) : j <= i

\* C17 as stated: when every call has been collected, the entry of each query
\* string is the outcome of its last occurrence in the input list.
C17_LastInputWins ==
    (pc[Main] = "as_completed" /\ Exhausted) =>
        \A q \in DOMAIN results : results[q] = Outcome(LastOccurrence(q))

\* C17 amended: at every point of the collection, results has one entry per
\* query string collected so far, and it is the outcome of the call of that
\* string that as_completed yielded last.
C17_LastWriteWins ==
    pc[Main] = "as_completed" =>
        /\ DOMAIN results = { queries[collected[k]] : k \in 1..Len(collected) }
        /\ \A q \in DOMAIN results : results[q] = Outcome(LastCollected(q))

C17_Witness ==
    /\ pc[Main] = "as_completed"
    /\ queries = << "q1", "q1" >>
    /\ collected = << 2, 1 >>
    /\ Outcome(1) # Outcome(2)
    /\ results["q1"] = Outcome(1)

\* C18: whenever a request is issued, the Authorization value attached to it
\* is the stored access token, never a token acquired before it (tokens are
\* numbered in the order the service granted them).
C18_HeaderIsLatestToken ==
    [][ \A t \in Threads :
          ( pc[t] \in {"headers", "set_headers"} /\ pc'[t] = "request" ) =>
              fr'[t].sent >= access_token ]_vars

\* C19: whenever a thread is about to read the token attributes, either both
\* the token and its expiry are stored or neither is, and no call ends with
\* the AttributeError of a missing expiry.
C19_TokenAndExpiryTogether ==
    /\ \A t \in Threads :
           pc[t] \in {"headers", "access_token"} =>
               (access_token = NoToken <=> access_token_expiry = NoExpiry)
    /\ \A t \in Threads : fr[t].out # AttributeError

\* C20: while no set_credentials call has succeeded, the client is not set
\* and no HTTP call has been issued through it (a request ends with
\* 'Credentials not set'); and the token is stored iff the client is set,
\* also after a set_credentials call that failed for want of a base URL.
C20_CredentialProtocol ==
    /\ client = NoClient => http = <<>>
    /\ (client = NoClient /\ outcome.kind = "raised") =>
           outcome \in { CredentialsNotSet, BaseUrlMissing }
    /\ token = NoToken <=> client = NoClient

====
